---- MODULE Spec2Model ----
(***************************************************************************)
(* Model of the getWeatherForecast tool of the OpenWeatherMap MCP server   *)
(* (src/src/server.ts).  The file holds two builds of the server: the one  *)
(* that attaches a map UI resource (lines 10-161) and the text-only one    *)
(* (lines 169-269).                                                        *)
(*                                                                         *)
(* Conventions                                                             *)
(*  - a JavaScript number is a fixed-point integer counting halves:        *)
(*    Num(3) is 3, Num(3) + 1 is 3.5.  Halves are exact in IEEE doubles.   *)
(*  - a string of the caller (city, country, and the location and the q   *)
(*    built from them) is the sequence of its UTF-16 code units, each a    *)
(*    number 0..65535: "Oslo" is <<79, 115, 108, 111>>.                    *)
(*  - every other JavaScript string is a sequence of tokens; a token is a  *)
(*    run of UTF-16 code units.  Emoji of the source's templates are       *)
(*    written "U+xxxx".  A string of the caller inside a text is one token *)
(*    per code unit: the character itself for printable ASCII, "u" and the *)
(*    decimal code unit otherwise (TemplateString).                        *)
(*  - an optional value (undefined or v) is <<>> or <<v>>.                 *)
(***************************************************************************)
EXTENDS Integers, Sequences, FiniteSets, TLC

VARIABLES
    variant,      \* which build of the server runs: "ui" or "text"
    pc,           \* per invocation: where the async handler is suspended
    locals,       \* per activation frame: the handler's local variables
    result,       \* per invocation: what the handler's promise settled to
    requests,     \* per invocation: the outbound fetch calls issued so far
    net,          \* the outbound calls in flight
    given,        \* per invocation: the arguments and upstream answers it got
    aggSamples,   \* aggregation transform alone: the sample list
    aggDays,      \* aggregation transform alone: the days argument
    aggDone,      \* aggregation transform alone: has it run
    aggSummaries, \* aggregation transform alone: the day summaries emitted
    aggThrew      \* aggregation transform alone: the error it threw, if any

vars == <<variant, pc, locals, result, requests, net, given,
          aggSamples, aggDays, aggDone, aggSummaries, aggThrew>>

handlerVars == <<variant, pc, locals, result, requests, net, given>>
aggVars == <<aggSamples, aggDays, aggDone, aggSummaries, aggThrew>>

-----------------------------------------------------------------------------
(* Bounds of the model *)

\* longest sample list given to the aggregation transform alone
MaxSamples == 3

\* longest sample list in a payload delivered to a handler invocation
MaxListLen == 2

\* longest sample list given to the aggregation when descriptions vary
MaxDescSamples == 3

-----------------------------------------------------------------------------
(* Numbers *)

Num(n) == n * 2

IsInteger(x) == x % 2 = 0

MathMin(a, b) == IF a <= b THEN a ELSE b

MathMax(a, b) == IF a >= b THEN a ELSE b

\* Math.round(x): the nearest integer, ties towards +Infinity
MathRound(x) == ((x + 1) \div 2) * 2

\* the average without the division by the count
MathRoundSum(sum, n) == MathRound(sum)

\* Math.round(sum / n) for n > 0: floor(sum/(2n) + 1/2), computed exactly
MathRoundQuotient(sum, n) == ((sum + n) \div (2 * n)) * 2

\* `${x}` of a number
NumberToString(x) ==
    IF x % 2 = 0 THEN ToString(x \div 2)
    ELSE IF x > 0 THEN ToString(x \div 2) \o ".5"
    ELSE "-" \o ToString((-x) \div 2) \o ".5"

\* ToIntegerOrInfinity, as Array.prototype.slice applies it to its bounds
ToInteger(x) == IF x >= 0 THEN x \div 2 ELSE -((-x) \div 2)

RECURSIVE SumSeq(_)
SumSeq(s) == IF s = <<>> THEN 0 ELSE Head(s) + SumSeq(Tail(s))

-----------------------------------------------------------------------------
(* Strings *)

\* tokens in ascending UTF-16 order of their first code unit, as far as
\* sort() compares them
CodeUnitOrder == <<" ", "0", "1", "2", "9", "constructor">>

CodeOf(c) == CHOOSE k \in 1..Len(CodeUnitOrder) : CodeUnitOrder[k] = c

RECURSIVE LexLess(_, _)
LexLess(a, b) ==
    IF a = <<>> THEN b # <<>>
    ELSE IF b = <<>> THEN FALSE
    ELSE IF Head(a) = Head(b) THEN LexLess(Tail(a), Tail(b))
    ELSE CodeOf(Head(a)) < CodeOf(Head(b))

IsHighSurrogate(u) == u >= 55296 /\ u <= 56319

IsLowSurrogate(u) == u >= 56320 /\ u <= 57343

\* every high surrogate is followed by a low one, every low preceded by a high
WellFormed(s) ==
    \A k \in 1..Len(s) :
        /\ IsHighSurrogate(s[k]) => (k < Len(s) /\ IsLowSurrogate(s[k + 1]))
        /\ IsLowSurrogate(s[k]) => (k > 1 /\ IsHighSurrogate(s[k - 1]))

\* the code units encodeURIComponent leaves alone:
\* A-Z a-z 0-9 - _ . ! ~ * ' ( )
Unreserved(u) ==
    \/ u >= 65 /\ u <= 90
    \/ u >= 97 /\ u <= 122
    \/ u >= 48 /\ u <= 57
    \/ u \in {45, 95, 46, 33, 126, 42, 39, 40, 41}

\* the code point of the surrogate pair hi, lo
CodePoint(hi, lo) == 65536 + (hi - 55296) * 1024 + (lo - 56320)

\* the UTF-8 bytes of a code point
Utf8(cp) ==
    IF cp < 128 THEN <<cp>>
    ELSE IF cp < 2048 THEN <<192 + (cp \div 64), 128 + (cp % 64)>>
    ELSE IF cp < 65536
    THEN <<224 + (cp \div 4096), 128 + ((cp \div 64) % 64), 128 + (cp % 64)>>
    ELSE <<240 + (cp \div 262144), 128 + ((cp \div 4096) % 64),
           128 + ((cp \div 64) % 64), 128 + (cp % 64)>>

\* the code unit of an upper-case hexadecimal digit
HexDigit(d) == IF d < 10 THEN 48 + d ELSE 55 + d

\* %XX for every byte
RECURSIVE PercentEscape(_)
PercentEscape(bytes) ==
    IF bytes = <<>> THEN <<>>
    ELSE <<37, HexDigit(Head(bytes) \div 16), HexDigit(Head(bytes) % 16)>>
         \o PercentEscape(Tail(bytes))

\* the code units of the encoding of a well-formed string
RECURSIVE EncodeUnits(_)
EncodeUnits(s) ==
    IF s = <<>> THEN <<>>
    ELSE IF Unreserved(Head(s)) THEN <<Head(s)>> \o EncodeUnits(Tail(s))
    ELSE IF IsHighSurrogate(Head(s))
    THEN PercentEscape(Utf8(CodePoint(s[1], s[2]))) \o EncodeUnits(Tail(Tail(s)))
    ELSE PercentEscape(Utf8(Head(s))) \o EncodeUnits(Tail(s))

\* encodeURIComponent: throws URIError on a lone surrogate, escapes every
\* character outside the unreserved set as the bytes of its UTF-8 encoding
encodeURIComponent(s) ==
    IF ~WellFormed(s)
    THEN [threw |-> TRUE, value |-> <<"URI malformed">>]
    ELSE [threw |-> FALSE, value |-> EncodeUnits(s)]

\* the tokens of the printable ASCII code units 32..126
AsciiTokens ==
    <<" ", "!", "\"", "#", "$", "%", "&", "'", "(", ")", "*", "+",
      ",", "-", ".", "/", "0", "1", "2", "3", "4", "5", "6", "7",
      "8", "9", ":", ";", "<", "=", ">", "?", "@", "A", "B", "C",
      "D", "E", "F", "G", "H", "I", "J", "K", "L", "M", "N", "O",
      "P", "Q", "R", "S", "T", "U", "V", "W", "X", "Y", "Z", "[",
      "\\", "]", "^", "_", "u96", "a", "b", "c", "d", "e", "f", "g",
      "h", "i", "j", "k", "l", "m", "n", "o", "p", "q", "r", "s",
      "t", "u", "v", "w", "x", "y", "z", "{", "|", "}", "~">>

\* the token of one code unit inside a text
CharToken(u) ==
    IF u >= 32 /\ u <= 126 THEN AsciiTokens[u - 31] ELSE "u" \o ToString(u)

\* `${s}` of a string of the caller inside a template literal
TemplateString(s) == [k \in 1..Len(s) |-> CharToken(s[k])]

\* s.split(" ")[0]: the tokens before the first space
RECURSIVE SplitFirst(_)
SplitFirst(s) ==
    IF s = <<>> \/ Head(s) = " " THEN <<>>
    ELSE <<Head(s)>> \o SplitFirst(Tail(s))

-----------------------------------------------------------------------------
(* The aggregation of samples into day summaries *)

\* the keys a plain {} answers through its prototype: forecastByDay[key] is
\* truthy for them before any bucket is made
ObjectPrototypeKeys ==
    {<<"constructor">>, <<"__proto__">>, <<"toString">>, <<"toLocaleString">>,
     <<"valueOf">>, <<"hasOwnProperty">>, <<"isPrototypeOf">>,
     <<"propertyIsEnumerable">>, <<"__defineGetter__">>, <<"__defineSetter__">>,
     <<"__lookupGetter__">>, <<"__lookupSetter__">>}

\* the callback with the sample's temp folded into the day's minimum
ForEachItemTempAsMin(forecastByDay, item) ==
    LET date == SplitFirst(item.dt_txt)
        cur  == IF date \in DOMAIN forecastByDay
                THEN forecastByDay[date]
                ELSE [temps |-> <<>>, descs |-> <<>>,
                      min |-> item.main.temp_min, max |-> item.main.temp_max]
        new  == [temps |-> Append(cur.temps, item.main.temp),
                 descs |-> IF item.weather # <<>>
                           THEN Append(cur.descs, item.weather[1].description)
                           ELSE cur.descs,
                 min   |-> MathMin(cur.min, item.main.temp),
                 max   |-> MathMax(cur.max, item.main.temp_max)]
    IN  IF date \in ObjectPrototypeKeys
        THEN [threw |-> TRUE,
              value |-> <<"Cannot read properties of undefined (reading 'push')">>]
        ELSE [threw |-> FALSE,
              value |-> [d \in (DOMAIN forecastByDay) \cup {date} |->
                            IF d = date THEN new ELSE forecastByDay[d]]]

\* forecastByDay after the forEach callback has seen one more item, or the
\* TypeError of temps.push on a key that Object.prototype answers
ForEachItem(forecastByDay, item) ==
    LET date == SplitFirst(item.dt_txt)
        cur  == IF date \in DOMAIN forecastByDay
                THEN forecastByDay[date]
                ELSE [temps |-> <<>>, descs |-> <<>>,
                      min |-> item.main.temp_min, max |-> item.main.temp_max]
        new  == [temps |-> Append(cur.temps, item.main.temp),
                 descs |-> IF item.weather # <<>>
                           THEN Append(cur.descs, item.weather[1].description)
                           ELSE cur.descs,
                 min   |-> MathMin(cur.min, item.main.temp_min),
                 max   |-> MathMax(cur.max, item.main.temp_max)]
    IN  IF date \in ObjectPrototypeKeys
        THEN [threw |-> TRUE,
              value |-> <<"Cannot read properties of undefined (reading 'push')">>]
        ELSE [threw |-> FALSE,
              value |-> [d \in (DOMAIN forecastByDay) \cup {date} |->
                            IF d = date THEN new ELSE forecastByDay[d]]]

EmptyRecord == [d \in {} |-> 0]

RECURSIVE ForEach(_, _), ForEachRest(_, _)
ForEach(forecastByDay, list) ==
    IF list = <<>> THEN [threw |-> FALSE, value |-> forecastByDay]
    ELSE ForEachRest(ForEachItem(forecastByDay, Head(list)), Tail(list))

\* forEach after one call of its callback: a throw ends the iteration
ForEachRest(seen, rest) ==
    IF seen.threw THEN seen ELSE ForEach(seen.value, rest)

\* Object.keys(o).sort(): the keys in ascending code-unit order
RECURSIVE SortKeys(_)
SortKeys(S) ==
    IF S = {} THEN <<>>
    ELSE LET least == CHOOSE a \in S : \A b \in S \ {a} : LexLess(a, b)
         IN  <<least>> \o SortKeys(S \ {least})

\* a.slice(0, end) for end >= 0
Slice(a, end) == SubSeq(a, 1, MathMin(ToInteger(end), Len(a)))

\* the callback with the day's last description in place of its first
DaySummaryLastDesc(date, day) ==
    [date |-> date,
     avg  |-> MathRoundQuotient(SumSeq(day.temps), Len(day.temps)),
     min  |-> MathRound(day.min),
     max  |-> MathRound(day.max),
     desc |-> IF day.descs # <<>> /\ day.descs[Len(day.descs)] # ""
              THEN day.descs[Len(day.descs)] ELSE "clear sky"]

\* the values the forecastList callback computes for one date
DaySummary(date, day) ==
    [date |-> date,
     avg  |-> MathRoundQuotient(SumSeq(day.temps), Len(day.temps)),
     min  |-> MathRound(day.min),
     max  |-> MathRound(day.max),
     desc |-> IF day.descs # <<>> /\ day.descs[1] # ""
              THEN day.descs[1] ELSE "clear sky"]

\* dates and the values of the forecastList callback for each of them
Summaries(forecastByDay, days) ==
    LET dates == Slice(SortKeys(DOMAIN forecastByDay), days)
    IN  [k \in 1..Len(dates) |-> DaySummary(dates[k], forecastByDay[dates[k]])]

\* the statements after the forEach call, which a throw inside it skips
AfterForEach(each, days) ==
    IF each.threw THEN each
    ELSE [threw |-> FALSE, value |-> Summaries(each.value, days)]

\* the day summaries, or the error the forEach callback threw
Aggregate(list, days) == AfterForEach(ForEach(EmptyRecord, list), days)

\* one line of forecastList
FormatLine(s) ==
    <<"U+1F4C5 ">> \o s.date \o
    <<": U+1F321 Avg ", NumberToString(s.avg), " degC (Min ", NumberToString(s.min),
      " degC, Max ", NumberToString(s.max), " degC), U+1F325 ", s.desc>>

\* forecastList.join("\n")
RECURSIVE JoinLines(_)
JoinLines(lines) ==
    IF lines = <<>> THEN <<>>
    ELSE IF Len(lines) = 1 THEN Head(lines)
    ELSE Head(lines) \o <<"\n">> \o JoinLines(Tail(lines))

-----------------------------------------------------------------------------
(* The tool's parameter schema and the handler's steps, as pure functions *)

\* z.number().min(1).max(5).optional(): which raw days values pass
DaysSchemaAccepts(d) == IF d = <<>> THEN TRUE ELSE d[1] >= Num(1) /\ d[1] <= Num(5)

\* .default(3): the parsed value handed to the handler
DaysSchemaDefault(d) == IF d = <<>> THEN <<Num(3)>> ELSE d

SchemaAccepts(raw) == DaysSchemaAccepts(raw.days)

SchemaParse(raw) ==
    [city |-> raw.city, country |-> raw.country, days |-> DaysSchemaDefault(raw.days)]

\* const { city, country, days = 3 } = args
DestructureDays(args) == IF args.days = <<>> THEN Num(3) ELSE args.days[1]

\* the location without the country
LocationCityOnly(args) == args.city

\* country ? `${city},${country}` : city
Location(args) ==
    IF args.country # <<>> /\ args.country[1] # <<>>
    THEN args.city \o <<44>> \o args.country[1]
    ELSE args.city

\* Math.max in place of Math.min
IntervalsMax(days) == MathMax(days * 8, Num(40))

Intervals(days) == MathMin(days * 8, Num(40))

TextContent(text) == [type |-> "text", text |-> text]

\* the catch block: the error's message in a text
Caught(message) ==
    <<TextContent(<<"An unexpected error occurred: ">> \o message)>>

\* response.ok
ResponseOk(status) == status >= 200 /\ status <= 299

\* the text of the !response.ok branch
StatusText(location, response) ==
    IF response.status = 404
    THEN <<"U+274C Could not find weather data for ">> \o TemplateString(location)
         \o <<".">>
    ELSE IF response.status = 401
    THEN <<"U+1F511 Invalid API key.">>
    ELSE <<"API Error: ">> \o response.statusText

\* data.message || "Failed to fetch weather data"
CodErrorText(data) ==
    <<"Error: ">> \o
    (IF data.message # <<>> /\ data.message[1].truthy
     THEN data.message[1].text
     ELSE <<"Failed to fetch weather data">>)

LocationName(data, location) ==
    IF data.city # <<>>
    THEN data.city[1].name \o <<", ">> \o data.city[1].country
    ELSE TemplateString(location)

ResultText(data, location, summaries) ==
    LET forecastList == [k \in 1..Len(summaries) |-> FormatLine(summaries[k])]
    IN  <<"U+1F324 Weather forecast for ">> \o LocationName(data, location)
        \o <<":", "\n">> \o JoinLines(forecastList)

\* data.city.coord?.lat || 0, data.city.coord?.lon || 0
CoordOf(data) ==
    IF data.city[1].coord = <<>> THEN [lat |-> 0, lon |-> 0]
    ELSE data.city[1].coord[1]

NeedsGeocoding(lat, lon) == lat = 0 \/ lon = 0

UIResource(lat, lon) ==
    [type |-> "resource", uri |-> "ui://weather/map",
     iframeUrl |-> <<"https://openweathermap.org/weathermap?basemap=map&cities=true&layer=temp&lat=",
                     NumberToString(lat), "&lon=", NumberToString(lon), "&zoom=10">>]

\* the UI resource ahead of the text
HybridContentUIFirst(resultText, lat, lon) ==
    <<UIResource(lat, lon), TextContent(resultText)>>

HybridContent(resultText, lat, lon) ==
    <<TextContent(resultText), UIResource(lat, lon)>>

ForecastRequest(location, days) ==
    [api |-> "forecast", q |-> encodeURIComponent(location).value,
     units |-> "metric", cnt |-> Intervals(days)]

GeoRequest(location) ==
    [api |-> "geo", q |-> encodeURIComponent(location).value, limit |-> Num(1)]

\* what the handler does with the parsed forecast body, up to its next await:
\*   done    - it returns `content`
\*   geo     - it issues the geocoding call, holding resultText, lat, lon
\* the UI build once the coordinates of the payload are read
CoordStepUI(text, lat, lon) ==
    IF NeedsGeocoding(lat, lon)
    THEN [next |-> "geo", content |-> <<>>,
          resultText |-> text, lat |-> lat, lon |-> lon]
    ELSE [next |-> "done", content |-> HybridContent(text, lat, lon),
          resultText |-> text, lat |-> lat, lon |-> lon]

\* the UI build once the aggregation has run: its throw is caught
AggregatedStepUI(data, location, agg) ==
    IF agg.threw
    THEN [next |-> "done", content |-> Caught(agg.value),
          resultText |-> <<>>, lat |-> 0, lon |-> 0]
    ELSE IF data.city = <<>>
    THEN [next |-> "done",
          content |-> Caught(<<"Cannot read properties of undefined (reading 'coord')">>),
          resultText |-> <<>>, lat |-> 0, lon |-> 0]
    ELSE CoordStepUI(ResultText(data, location, agg.value),
                     CoordOf(data).lat, CoordOf(data).lon)

\* the text-only build once the aggregation has run: its throw is caught
AggregatedStepText(data, location, agg) ==
    IF agg.threw
    THEN [next |-> "done", content |-> Caught(agg.value),
          resultText |-> <<>>, lat |-> 0, lon |-> 0]
    ELSE [next |-> "done",
          content |-> <<TextContent(ResultText(data, location, agg.value))>>,
          resultText |-> <<>>, lat |-> 0, lon |-> 0]

JsonStepUI(data, location, days) ==
    IF data.cod # "200"
    THEN [next |-> "done", content |-> <<TextContent(CodErrorText(data))>>,
          resultText |-> <<>>, lat |-> 0, lon |-> 0]
    ELSE IF data.list = <<>>
    THEN [next |-> "done",
          content |-> Caught(<<"Cannot read properties of undefined (reading 'forEach')">>),
          resultText |-> <<>>, lat |-> 0, lon |-> 0]
    ELSE AggregatedStepUI(data, location, Aggregate(data.list[1], days))

JsonStepText(data, location, days) ==
    IF data.list = <<>>
    THEN [next |-> "done",
          content |-> Caught(<<"Cannot read properties of undefined (reading 'forEach')">>),
          resultText |-> <<>>, lat |-> 0, lon |-> 0]
    ELSE AggregatedStepText(data, location, Aggregate(data.list[1], days))

JsonStep(v, body, location, days) ==
    IF body.kind = "invalid"
    THEN [next |-> "done", content |-> Caught(<<"Unexpected token in JSON">>),
          resultText |-> <<>>, lat |-> 0, lon |-> 0]
    ELSE IF v = "ui" THEN JsonStepUI(body, location, days)
    ELSE JsonStepText(body, location, days)

\* the geocoding answer with an unparsable body passed over
GeoJsonStepLenient(geoBody, resultText, lat, lon) ==
    IF geoBody.kind = "array" /\ Len(geoBody.items) > 0
    THEN HybridContent(resultText, geoBody.items[1].lat, geoBody.items[1].lon)
    ELSE HybridContent(resultText, lat, lon)

\* the geocoding answer: geoData.length > 0 ? geoData[0] : the coordinates held
GeoJsonStep(geoBody, resultText, lat, lon) ==
    IF geoBody.kind = "invalid" THEN Caught(<<"Unexpected token in JSON">>)
    ELSE IF geoBody.kind = "array" /\ Len(geoBody.items) > 0
    THEN HybridContent(resultText, geoBody.items[1].lat, geoBody.items[1].lon)
    ELSE HybridContent(resultText, lat, lon)

-----------------------------------------------------------------------------
(* The handler as a state machine: one step per stretch between awaits *)

Invocations == {"a", "b"}

\* one frame for every call: the locals hoisted out of the handler
SharedFrame(i) == "a"

\* the activation frame holding an invocation's local variables: each call of
\* the async arrow function has its own
Frame(i) == i

NoLocals == [location |-> <<>>, days |-> 0, resultText |-> <<>>, lat |-> 0, lon |-> 0]

Pending == [kind |-> "pending", content |-> <<>>, error |-> <<>>]

Returned(content) == [kind |-> "returned", content |-> content, error |-> <<>>]

Threw(message) == [kind |-> "threw", content |-> <<>>, error |-> message]

NothingGiven == [raw |-> <<>>, fetch |-> <<>>, body |-> <<>>, geo |-> <<>>, geoBody |-> <<>>]

InitHandler ==
    /\ variant \in {"ui", "text"}
    /\ pc = [i \in Invocations |-> "idle"]
    /\ locals = [f \in Invocations |-> NoLocals]
    /\ result = [i \in Invocations |-> Pending]
    /\ requests = [i \in Invocations |-> <<>>]
    /\ net = {}
    /\ given = [i \in Invocations |-> NothingGiven]

\* the schema layer refuses the arguments: the handler is never entered
Reject(i, raw) ==
    /\ pc[i] = "idle"
    /\ ~SchemaAccepts(raw)
    /\ pc' = [pc EXCEPT ![i] = "rejected"]
    /\ given' = [given EXCEPT ![i].raw = <<raw>>]
    /\ UNCHANGED <<variant, locals, result, requests, net>>
    /\ UNCHANGED aggVars

\* the handler is entered and runs to await fetch(url)
Call(i, raw) ==
    /\ pc[i] = "idle"
    /\ SchemaAccepts(raw)
    /\ given' = [given EXCEPT ![i].raw = <<raw>>]
    /\ LET args == SchemaParse(raw)
           days == DestructureDays(args)
           location == Location(args)
       IN  IF encodeURIComponent(location).threw
           THEN /\ pc' = [pc EXCEPT ![i] = "done"]
                /\ result' = [result EXCEPT ![i] = Threw(encodeURIComponent(location).value)]
                /\ UNCHANGED <<locals, requests, net>>
           ELSE /\ pc' = [pc EXCEPT ![i] = "awaitFetch"]
                /\ locals' = [locals EXCEPT ![Frame(i)] =
                                 [NoLocals EXCEPT !.location = location, !.days = days]]
                /\ requests' = [requests EXCEPT ![i] = Append(@, ForecastRequest(location, days))]
                /\ net' = net \cup {[by |-> i, api |-> "forecast"]}
                /\ UNCHANGED result
    /\ UNCHANGED <<variant, aggVars>>

\* fetch(url) settles: a network failure, or a response with a status
FetchResolves(i, outcome) ==
    /\ pc[i] = "awaitFetch"
    /\ given' = [given EXCEPT ![i].fetch = <<outcome>>]
    /\ net' = net \ {[by |-> i, api |-> "forecast"]}
    /\ IF outcome.kind = "failure"
       THEN /\ pc' = [pc EXCEPT ![i] = "done"]
            /\ result' = [result EXCEPT ![i] = Returned(Caught(outcome.message))]
       ELSE IF ~ResponseOk(outcome.status)
       THEN /\ pc' = [pc EXCEPT ![i] = "done"]
            /\ result' = [result EXCEPT ![i] =
                 Returned(<<TextContent(StatusText(locals[Frame(i)].location, outcome))>>)]
       ELSE /\ pc' = [pc EXCEPT ![i] = "awaitJson"]
            /\ UNCHANGED result
    /\ UNCHANGED <<variant, locals, requests, aggVars>>

\* response.json() settles; the handler runs to its return or to the
\* geocoding call
JsonResolves(i, body) ==
    /\ pc[i] = "awaitJson"
    /\ given' = [given EXCEPT ![i].body = <<body>>]
    /\ LET l == locals[Frame(i)]
           step == JsonStep(variant, body, l.location, l.days)
       IN  IF step.next = "done"
           THEN /\ pc' = [pc EXCEPT ![i] = "done"]
                /\ result' = [result EXCEPT ![i] = Returned(step.content)]
                /\ UNCHANGED <<locals, requests, net>>
           ELSE /\ pc' = [pc EXCEPT ![i] = "awaitGeo"]
                /\ locals' = [locals EXCEPT ![Frame(i)] =
                                 [l EXCEPT !.resultText = step.resultText,
                                           !.lat = step.lat, !.lon = step.lon]]
                /\ requests' = [requests EXCEPT ![i] = Append(@, GeoRequest(l.location))]
                /\ net' = net \cup {[by |-> i, api |-> "geo"]}
                /\ UNCHANGED result
    /\ UNCHANGED <<variant, aggVars>>

\* fetch(geoUrl) settles; its status is not looked at
GeoResolves(i, outcome) ==
    /\ pc[i] = "awaitGeo"
    /\ given' = [given EXCEPT ![i].geo = <<outcome>>]
    /\ net' = net \ {[by |-> i, api |-> "geo"]}
    /\ IF outcome.kind = "failure"
       THEN /\ pc' = [pc EXCEPT ![i] = "done"]
            /\ result' = [result EXCEPT ![i] = Returned(Caught(outcome.message))]
       ELSE /\ pc' = [pc EXCEPT ![i] = "awaitGeoJson"]
            /\ UNCHANGED result
    /\ UNCHANGED <<variant, locals, requests, aggVars>>

\* geoResponse.json() settles; the handler returns
GeoJsonResolves(i, geoBody) ==
    /\ pc[i] = "awaitGeoJson"
    /\ given' = [given EXCEPT ![i].geoBody = <<geoBody>>]
    /\ LET l == locals[Frame(i)]
       IN  result' = [result EXCEPT ![i] =
                         Returned(GeoJsonStep(geoBody, l.resultText, l.lat, l.lon))]
    /\ pc' = [pc EXCEPT ![i] = "done"]
    /\ UNCHANGED <<variant, locals, requests, net, aggVars>>

-----------------------------------------------------------------------------
(* The inputs *)

\* "Oslo", a lone high surrogate, "New York", "Z\u00FCrich" (u umlaut),
\* a, backslash, b, backtick and the pair D83C DF24 (U+1F324)
CityValues ==
    {<<79, 115, 108, 111>>, <<55296>>, <<78, 101, 119, 32, 89, 111, 114, 107>>,
     <<90, 252, 114, 105, 99, 104>>, <<97, 92, 98, 96, 55356, 57124>>}

\* absent, the empty string, a country code
CountryValues == {<<>>, <<<<>>>>, <<<<78, 79>>>>}

RawDaysValues == {<<>>, <<1>>, <<Num(1)>>, <<Num(1) + 1>>, <<Num(2)>>, <<Num(5)>>, <<Num(5) + 1>>}

RawArgsValues == [city : CityValues, country : CountryValues, days : RawDaysValues]

NetworkFailure == [kind |-> "failure", message |-> <<"fetch failed">>, status |-> 0, statusText |-> <<>>]

Response(status, statusText) ==
    [kind |-> "response", message |-> <<>>, status |-> status, statusText |-> <<statusText>>]

FetchOutcomes ==
    {NetworkFailure, Response(200, "OK"), Response(204, "No Content"),
     Response(304, "Not Modified"), Response(401, "Unauthorized"),
     Response(404, "Not Found"), Response(500, "Internal Server Error")}

GeoOutcomes == {NetworkFailure, Response(200, "OK"), Response(500, "Internal Server Error")}

DateValues == {<<"0", "9">>, <<"1", "0">>, <<"1", "1">>}

DtTxt(date) == date \o <<" ", "12:00:00">>

Main(temp, tmin, tmax) == [temp |-> temp, temp_min |-> tmin, temp_max |-> tmax]

MainValues ==
    {Main(Num(10), Num(9) + 1, Num(10) + 1),
     Main(Num(12), Num(11), Num(12) + 1),
     Main(Num(14), Num(13) + 1, Num(15)),
     Main(-Num(2) + 1, Num(12), Num(13))}

\* a sample whose dt_txt starts with the name of a property of Object.prototype
PrototypeKeySample ==
    [dt_txt |-> DtTxt(<<"constructor">>), main |-> Main(Num(10), Num(9) + 1, Num(10) + 1),
     weather |-> <<[description |-> "snow"]>>]

AggSampleValues ==
    [dt_txt : {DtTxt(d) : d \in DateValues}, main : MainValues, weather : {<<>>}]
    \cup {PrototypeKeySample}

SeqsUpTo(S, n) == UNION {[1..k -> S] : k \in 0..n}

AggDaysValues == {DestructureDays([days |-> DaysSchemaDefault(d)]) :
                    d \in {r \in RawDaysValues : DaysSchemaAccepts(r)}}

HandlerSampleValues ==
    {[dt_txt |-> DtTxt(<<"1", "0">>), main |-> Main(Num(10), Num(9) + 1, Num(10) + 1),
      weather |-> <<[description |-> "light rain"]>>],
     [dt_txt |-> DtTxt(<<"0", "9">>), main |-> Main(Num(12), Num(11), Num(12) + 1),
      weather |-> <<>>],
     PrototypeKeySample}

MessageValues == {<<>>, <<[truthy |-> FALSE, text |-> <<"0">>]>>,
                  <<[truthy |-> TRUE, text |-> <<"city not found">>]>>}

Coord(lat, lon) == [lat |-> lat, lon |-> lon]

CityMeta(coord) == [name |-> <<"Oslo">>, country |-> <<"NO">>, coord |-> coord]

CityMetaValues == {<<>>, <<CityMeta(<<>>)>>, <<CityMeta(<<Coord(Num(60), Num(11))>>)>>,
                   <<CityMeta(<<Coord(0, Num(11))>>)>>}

InvalidBody == [kind |-> "invalid"]

Payload(cod, message, list, city) ==
    [kind |-> "json", cod |-> cod, message |-> message, list |-> list, city |-> city]

ListValues == {<<>>} \cup {<<l>> : l \in SeqsUpTo(HandlerSampleValues, MaxListLen)}

BodyValues ==
    {InvalidBody} \cup
    {Payload(cod, m, l, c) : cod \in {"200", "404"}, m \in MessageValues,
                             l \in ListValues, c \in CityMetaValues}

GeoBodyValues ==
    {InvalidBody, [kind |-> "array", items |-> <<>>],
     [kind |-> "array", items |-> <<Coord(Num(59) + 1, Num(10) + 1)>>],
     [kind |-> "object", items |-> <<>>]}

-----------------------------------------------------------------------------
(* Specifications *)

InitAggIdle ==
    /\ aggSamples = <<>>
    /\ aggDays = Num(3)
    /\ aggDone = FALSE
    /\ aggSummaries = <<>>
    /\ aggThrew = <<>>

Init == InitHandler /\ InitAggIdle

\* one invocation, every input
Next ==
    \E i \in {"a"} :
        \/ \E raw \in RawArgsValues : Reject(i, raw)
        \/ \E raw \in RawArgsValues : Call(i, raw)
        \/ \E o \in FetchOutcomes : FetchResolves(i, o)
        \/ \E b \in BodyValues : JsonResolves(i, b)
        \/ \E o \in GeoOutcomes : GeoResolves(i, o)
        \/ \E g \in GeoBodyValues : GeoJsonResolves(i, g)

Spec == Init /\ [][Next]_vars

\* the aggregation transform alone, on every sample list up to MaxSamples
InitAgg ==
    /\ InitHandler
    /\ aggSamples \in SeqsUpTo(AggSampleValues, MaxSamples)
    /\ aggDays \in AggDaysValues
    /\ aggDone = FALSE
    /\ aggSummaries = <<>>
    /\ aggThrew = <<>>

RunAggregate ==
    /\ ~aggDone
    /\ aggDone' = TRUE
    /\ LET outcome == Aggregate(aggSamples, aggDays)
       IN  /\ aggSummaries' = IF outcome.threw THEN <<>> ELSE outcome.value
           /\ aggThrew' = IF outcome.threw THEN <<outcome.value>> ELSE <<>>
    /\ UNCHANGED <<aggSamples, aggDays>>
    /\ UNCHANGED handlerVars

SpecAgg == InitAgg /\ [][RunAggregate]_vars

\* item.weather: absent, or one entry with its description
WeatherValues ==
    {<<>>, <<[description |-> ""]>>, <<[description |-> "light rain"]>>,
     <<[description |-> "snow"]>>, <<[description |-> "clear sky"]>>}

DescSampleValues ==
    [dt_txt : {DtTxt(<<"0", "9">>), DtTxt(<<"1", "0">>)},
     main : {Main(Num(10), Num(9) + 1, Num(10) + 1)},
     weather : WeatherValues]
    \cup {PrototypeKeySample}

\* the aggregation transform alone, on sample lists whose descriptions vary
InitDesc ==
    /\ InitHandler
    /\ aggSamples \in SeqsUpTo(DescSampleValues, MaxDescSamples)
    /\ aggDays \in AggDaysValues
    /\ aggDone = FALSE
    /\ aggSummaries = <<>>
    /\ aggThrew = <<>>

SpecDesc == InitDesc /\ [][RunAggregate]_vars

-----------------------------------------------------------------------------
(* Two invocations interleaved at their awaits *)

ConcRawValues ==
    {[city |-> <<79, 115, 108, 111>>, country |-> <<>>, days |-> <<Num(1)>>],
     [city |-> <<79, 115, 108, 111>>, country |-> <<<<78, 79>>>>, days |-> <<>>]}

ConcFetchOutcomes == {NetworkFailure, Response(200, "OK"), Response(404, "Not Found")}

ConcBodyValues ==
    {InvalidBody,
     Payload("200", <<>>, <<
                [k \in 1..2 |-> [dt_txt |-> DtTxt(<<"1", ToString(k - 1)>>),
                                 main |-> Main(Num(10 + k), Num(9), Num(12) + 1),
                                 weather |-> <<[description |-> "light rain"]>>]]>>,
             <<CityMeta(<<>>)>>),
     Payload("200", <<>>, <<<<[dt_txt |-> DtTxt(<<"0", "9">>),
                               main |-> Main(Num(14), Num(13) + 1, Num(15)),
                               weather |-> <<>>]>>>>,
             <<CityMeta(<<Coord(Num(60), Num(11))>>)>>),
     Payload("404", <<[truthy |-> TRUE, text |-> <<"city not found">>]>>, <<>>, <<>>)}

ConcGeoOutcomes == {NetworkFailure, Response(200, "OK")}

ConcGeoBodyValues ==
    {[kind |-> "array", items |-> <<>>],
     [kind |-> "array", items |-> <<Coord(Num(59) + 1, Num(10) + 1)>>]}

NextConc ==
    \E i \in Invocations :
        \/ \E raw \in ConcRawValues : Call(i, raw)
        \/ \E o \in ConcFetchOutcomes : FetchResolves(i, o)
        \/ \E b \in ConcBodyValues : JsonResolves(i, b)
        \/ \E o \in ConcGeoOutcomes : GeoResolves(i, o)
        \/ \E g \in ConcGeoBodyValues : GeoJsonResolves(i, g)

SpecConc == Init /\ [][NextConc]_vars

\* the handler run start to finish on the arguments and upstream answers in g
RunAlone(v, g) ==
    LET args == SchemaParse(g.raw[1])
        days == DestructureDays(args)
        location == Location(args)
    IN  IF encodeURIComponent(location).threw
        THEN Threw(encodeURIComponent(location).value)
        ELSE IF g.fetch[1].kind = "failure"
        THEN Returned(Caught(g.fetch[1].message))
        ELSE IF ~ResponseOk(g.fetch[1].status)
        THEN Returned(<<TextContent(StatusText(location, g.fetch[1]))>>)
        ELSE LET step == JsonStep(v, g.body[1], location, days)
             IN  IF step.next = "done" THEN Returned(step.content)
                 ELSE IF g.geo[1].kind = "failure"
                 THEN Returned(Caught(g.geo[1].message))
                 ELSE Returned(GeoJsonStep(g.geoBody[1], step.resultText, step.lat, step.lon))

-----------------------------------------------------------------------------
(* Vocabulary of the properties, stated without the handler's own operators *)

Done(i) == pc[i] = "done"

Args(i) == given[i].raw[1]

\* the days the caller asked for, 3 when omitted
AskedDays(i) == IF Args(i).days = <<>> THEN Num(3) ELSE Args(i).days[1]

\* city alone, or city,COUNTRY when a country is supplied; an empty string
\* names no country
AskedLocation(i) ==
    IF Args(i).country = <<>> \/ Args(i).country = <<<<>>>>
    THEN [k \in 1..Len(Args(i).city) |-> CharToken(Args(i).city[k])]
    ELSE [k \in 1..Len(Args(i).city) |-> CharToken(Args(i).city[k])] \o <<",">>
         \o [k \in 1..Len(Args(i).country[1]) |-> CharToken(Args(i).country[1][k])]

ForecastAnswered(i) == given[i].fetch # <<>> /\ given[i].fetch[1].kind = "response"

ForecastStatus(i) == given[i].fetch[1].status

Is2xx(status) == status \in 200..299

\* the forecast call answered 2xx and its body parsed
PayloadReceived(i) ==
    /\ ForecastAnswered(i)
    /\ Is2xx(ForecastStatus(i))
    /\ given[i].body # <<>>
    /\ given[i].body[1].kind = "json"

PayloadOf(i) == given[i].body[1]

IsSingleText(content) == Len(content) = 1 /\ content[1].type = "text"

ForecastHeader == "U+1F324 Weather forecast for "

IsForecastText(text) == text # <<>> /\ text[1] = ForecastHeader

Contains(text, token) == \E k \in 1..Len(text) : text[k] = token

DistinctDates(list) == {SplitFirst(list[k].dt_txt) : k \in 1..Len(list)}

SamplesOn(list, date) == {k \in 1..Len(list) : SplitFirst(list[k].dt_txt) = date}

ConsistentSample(s) == s.main.temp_min <= s.main.temp /\ s.main.temp <= s.main.temp_max

-----------------------------------------------------------------------------
(* C1 *)

\* C1: every finished invocation of the handler has returned a result that
\* holds a text element; none has ended by throwing.
C1_AlwaysReturnsText ==
    \A i \in Invocations :
        Done(i) =>
            /\ result[i].kind = "returned"
            /\ \E k \in 1..Len(result[i].content) : result[i].content[k].type = "text"

-----------------------------------------------------------------------------
(* C2 *)

\* C2: the aggregation emits exactly min(days, D) day entries, D the number
\* of distinct dates among the samples; they are the smallest dates, one
\* entry per date, ascending.
C2_CountAndDates ==
    aggDone =>
        LET D == DistinctDates(aggSamples)
            n == Len(aggSummaries)
            emitted == {aggSummaries[k].date : k \in 1..n}
        IN  /\ Num(n) = (IF aggDays <= Num(Cardinality(D)) THEN aggDays
                         ELSE Num(Cardinality(D)))
            /\ emitted \subseteq D
            /\ \A j, k \in 1..n :
                 j < k => LexLess(aggSummaries[j].date, aggSummaries[k].date)
            /\ \A d \in D \ emitted : \A e \in emitted : LexLess(e, d)

\* the same for the whole days the spec's data model speaks of
AggCountForWholeDays ==
    (aggDone /\ IsInteger(aggDays) /\ aggThrew = <<>>) => C2_CountAndDates

-----------------------------------------------------------------------------
(* C3 *)

\* C3 as stated: for every emitted day summary, min - 1 <= avg <= max + 1,
\* whatever temp, temp_min and temp_max the samples carry.
C3_AvgWithinMinMax ==
    aggDone =>
        \A k \in 1..Len(aggSummaries) :
            /\ aggSummaries[k].min - Num(1) <= aggSummaries[k].avg
            /\ aggSummaries[k].avg <= aggSummaries[k].max + Num(1)

\* C3 amended: for every emitted day summary all of whose samples have
\* temp_min <= temp <= temp_max, min - 1 <= avg <= max + 1.
C3_AvgWithinMinMaxOfConsistentSamples ==
    aggDone =>
        \A k \in 1..Len(aggSummaries) :
            (\A j \in SamplesOn(aggSamples, aggSummaries[k].date) :
                 ConsistentSample(aggSamples[j]))
            => /\ aggSummaries[k].min - Num(1) <= aggSummaries[k].avg
               /\ aggSummaries[k].avg <= aggSummaries[k].max + Num(1)

\* a day summary built from three consistent samples with distinct temps
C3_Witness ==
    /\ aggDone
    /\ \E k \in 1..Len(aggSummaries) :
         LET on == SamplesOn(aggSamples, aggSummaries[k].date)
         IN  /\ Cardinality(on) = 3
             /\ \A j \in on : ConsistentSample(aggSamples[j])
             /\ Cardinality({aggSamples[j].main.temp : j \in on}) = 3

-----------------------------------------------------------------------------
(* C4 *)

\* C4: after a non-2xx answer to the forecast call the result is one text
\* fixed by the status: the not-found text with the location for 404, the
\* invalid-key text for 401, a text holding the status text otherwise; the
\* body is never read and no other outbound call is made.
C4_StatusDecidesText ==
    \A i \in Invocations :
        (Done(i) /\ ForecastAnswered(i) /\ ~Is2xx(ForecastStatus(i))) =>
            /\ result[i].kind = "returned"
            /\ IsSingleText(result[i].content)
            /\ LET text == result[i].content[1].text
               IN  /\ ForecastStatus(i) = 404 =>
                        text = <<"U+274C Could not find weather data for ">>
                               \o AskedLocation(i) \o <<".">>
                   /\ ForecastStatus(i) = 401 => text = <<"U+1F511 Invalid API key.">>
                   /\ ForecastStatus(i) \notin {401, 404} =>
                        Contains(text, given[i].fetch[1].statusText[1])
            /\ given[i].body = <<>>
            /\ given[i].geo = <<>>
            /\ Len(requests[i]) = 1
            /\ ~\E r \in net : r.by = i

\* a 404 for a query that names a country
C4_Witness ==
    \E i \in Invocations :
        /\ Done(i)
        /\ ForecastAnswered(i)
        /\ ForecastStatus(i) = 404
        /\ Args(i).country = <<<<78, 79>>>>

-----------------------------------------------------------------------------
(* C5 *)

\* C5: after a 2xx answer whose payload has cod other than "200" the result
\* is the upstream-error text with the payload's message, or with the
\* generic message when there is none; no forecast is returned.
C5_CodDecidesError ==
    \A i \in Invocations :
        (Done(i) /\ PayloadReceived(i) /\ PayloadOf(i).cod # "200") =>
            /\ result[i].kind = "returned"
            /\ IsSingleText(result[i].content)
            /\ result[i].content[1].text =
                 <<"Error: ">> \o
                 (IF PayloadOf(i).message # <<>> /\ PayloadOf(i).message[1].truthy
                  THEN PayloadOf(i).message[1].text
                  ELSE <<"Failed to fetch weather data">>)

-----------------------------------------------------------------------------
(* C6 *)

\* C6: the cnt of the forecast request is min(days*8, 40): 24 when days is
\* omitted, 40 when days is 5, never above 40 for any days the schema lets
\* through; arguments the schema refuses cause no request.
C6_IntervalCount ==
    \A i \in Invocations :
        /\ pc[i] = "rejected" => requests[i] = <<>>
        /\ requests[i] # <<>> =>
             LET cnt == requests[i][1].cnt
             IN  /\ requests[i][1].api = "forecast"
                 /\ cnt = (IF AskedDays(i) * 8 <= Num(40) THEN AskedDays(i) * 8 ELSE Num(40))
                 /\ cnt <= Num(40)
                 /\ Args(i).days = <<>> => cnt = Num(24)
                 /\ Args(i).days = <<Num(5)>> => cnt = Num(40)

\* a forecast request has gone out for days = 5
C6_Witness ==
    \E i \in Invocations : requests[i] # <<>> /\ Args(i).days = <<Num(5)>>

-----------------------------------------------------------------------------
(* C7 *)

\* C7 as stated: every result the handler returns, forecast or error, has
\* exactly one content element, a text block.
C7_SingleTextBlock ==
    \A i \in Invocations :
        (Done(i) /\ result[i].kind = "returned") => IsSingleText(result[i].content)

\* C7 amended: every result the handler returns starts with a text block;
\* it is the only element on every error path and in the text-only build,
\* while a forecast of the build with the map UI has exactly two elements,
\* the text block and then the UI resource.
C7_TextBlockFirst ==
    \A i \in Invocations :
        (Done(i) /\ result[i].kind = "returned") =>
            LET content == result[i].content
            IN  /\ Len(content) >= 1
                /\ content[1].type = "text"
                /\ IF variant = "ui" /\ IsForecastText(content[1].text)
                   THEN Len(content) = 2 /\ content[2].type = "resource"
                   ELSE Len(content) = 1

\* a forecast returned by the build with the map UI
C7_Witness ==
    \E i \in Invocations :
        /\ Done(i)
        /\ variant = "ui"
        /\ result[i].kind = "returned"
        /\ IsForecastText(result[i].content[1].text)

-----------------------------------------------------------------------------
(* C8 *)

\* C8: a 2xx payload with cod "200" and an empty sample list gives the
\* upstream-error text with the generic message, not a forecast, and no
\* text holding undefined or NaN.
C8_EmptyListIsUpstreamError ==
    \A i \in Invocations :
        (Done(i) /\ PayloadReceived(i) /\ PayloadOf(i).cod = "200"
                 /\ PayloadOf(i).list = <<<<>>>>) =>
            /\ result[i].kind = "returned"
            /\ IsSingleText(result[i].content)
            /\ result[i].content[1].text = <<"Error: ", "Failed to fetch weather data">>
            /\ ~Contains(result[i].content[1].text, "NaN")
            /\ ~Contains(result[i].content[1].text, "undefined")

-----------------------------------------------------------------------------
(* C9 *)

CountOf(reqs, api) == Cardinality({k \in 1..Len(reqs) : reqs[k].api = api})

InFlight(i, api) == [by |-> i, api |-> api] \in net

FailedCall(outcome) == outcome.kind = "failure" \/ ~Is2xx(outcome.status)

IsErrorText(content) == IsSingleText(content) /\ ~IsForecastText(content[1].text)

\* the order and number of outbound calls, whatever the answers
OutboundCallOrder ==
    \A i \in Invocations :
        /\ CountOf(requests[i], "forecast") <= 1
        /\ CountOf(requests[i], "geo") <= 1
        /\ ~(InFlight(i, "forecast") /\ InFlight(i, "geo"))
        /\ CountOf(requests[i], "geo") = 1 =>
             /\ requests[i][1].api = "forecast"
             /\ PayloadReceived(i)
        /\ (given[i].fetch # <<>> /\ given[i].fetch[1].kind = "failure") =>
             Len(requests[i]) = 1

\* C9: at most one forecast and one geocoding request, never both in
\* flight, none reissued after a failure; the geocoding request only after
\* a successful forecast whose payload supplies no coordinates; a failed
\* outbound call ends the request with an error text.
C9_OutboundCalls ==
    /\ OutboundCallOrder
    /\ \A i \in Invocations :
        /\ CountOf(requests[i], "geo") = 1 =>
             (PayloadOf(i).city = <<>> \/ PayloadOf(i).city[1].coord = <<>>)
        /\ (given[i].fetch # <<>> /\ FailedCall(given[i].fetch[1])) =>
             (Done(i) /\ result[i].kind = "returned" /\ IsErrorText(result[i].content))
        /\ (given[i].geo # <<>> /\ FailedCall(given[i].geo[1])) =>
             (Done(i) /\ result[i].kind = "returned" /\ IsErrorText(result[i].content))

-----------------------------------------------------------------------------
(* C10 *)

\* C10: whatever the interleaving of two invocations at their awaits, each
\* finished invocation has the result of a run alone on its own arguments
\* and upstream answers; so equal inputs give equal results.
C10_Isolation ==
    /\ \A i \in Invocations : Done(i) => result[i] = RunAlone(variant, given[i])
    /\ \A i, j \in Invocations :
         (Done(i) /\ Done(j) /\ given[i] = given[j]) => result[i] = result[j]

\* one invocation has returned its forecast while the other, called with
\* other arguments, is suspended at the geocoding call
C10_Witness ==
    /\ Done("a")
    /\ result["a"].kind = "returned"
    /\ IsForecastText(result["a"].content[1].text)
    /\ pc["b"] = "awaitGeoJson"
    /\ given["a"].raw # given["b"].raw

-----------------------------------------------------------------------------
(* C11 *)

\* the descriptions of the samples of a date, in arrival order
RECURSIVE DescriptionsOn(_, _)
DescriptionsOn(list, date) ==
    IF list = <<>> THEN <<>>
    ELSE (IF SplitFirst(Head(list).dt_txt) = date /\ Head(list).weather # <<>>
          THEN <<Head(list).weather[1].description>> ELSE <<>>)
         \o DescriptionsOn(Tail(list), date)

Occurrences(descs, d) == Cardinality({k \in 1..Len(descs) : descs[k] = d})

\* C11: the description of every day summary whose day has descriptions, all
\* of them non-empty, is a most frequent one among the descriptions of that
\* day's samples.
C11_MostCommonDescription ==
    aggDone =>
        \A k \in 1..Len(aggSummaries) :
            LET descs == DescriptionsOn(aggSamples, aggSummaries[k].date)
            IN  (descs # <<>> /\ Occurrences(descs, "") = 0) =>
                  /\ Occurrences(descs, aggSummaries[k].desc) >= 1
                  /\ \A j \in 1..Len(descs) :
                       Occurrences(descs, aggSummaries[k].desc) >= Occurrences(descs, descs[j])

-----------------------------------------------------------------------------
(* C12 *)

\* the sum of the temps of the samples of a date
RECURSIVE TempSumOn(_, _)
TempSumOn(list, date) ==
    IF list = <<>> THEN 0
    ELSE (IF SplitFirst(Head(list).dt_txt) = date THEN Head(list).main.temp ELSE 0)
         + TempSumOn(Tail(list), date)

\* r is x / n rounded to the nearest whole number, a tie going up
RoundsTo(x, n, r) == IsInteger(r) /\ (r - 1) * n <= x /\ x < (r + 1) * n

\* C12: every emitted day summary is computed from exactly the samples of its
\* date, in whatever order they arrived: avg is the rounded mean of their
\* temp, min the rounded least temp_min, max the rounded greatest temp_max.
C12_SummaryFromOwnSamples ==
    aggDone =>
        \A k \in 1..Len(aggSummaries) :
            LET on == SamplesOn(aggSamples, aggSummaries[k].date)
            IN  /\ on # {}
                /\ RoundsTo(TempSumOn(aggSamples, aggSummaries[k].date),
                            Cardinality(on), aggSummaries[k].avg)
                /\ \E j \in on :
                     /\ \A h \in on : aggSamples[j].main.temp_min <= aggSamples[h].main.temp_min
                     /\ RoundsTo(aggSamples[j].main.temp_min, 1, aggSummaries[k].min)
                /\ \E j \in on :
                     /\ \A h \in on : aggSamples[j].main.temp_max >= aggSamples[h].main.temp_max
                     /\ RoundsTo(aggSamples[j].main.temp_max, 1, aggSummaries[k].max)

\* a day of temps 10, 12, 14, not arriving in that order, averaged to 12
C12_Witness ==
    /\ aggDone
    /\ \E k \in 1..Len(aggSummaries) :
         LET on == SamplesOn(aggSamples, aggSummaries[k].date)
         IN  /\ {aggSamples[j].main.temp : j \in on} = {Num(10), Num(12), Num(14)}
             /\ Cardinality(on) = 3
             /\ \E j, h \in on : j < h /\ aggSamples[j].main.temp > aggSamples[h].main.temp
             /\ aggSummaries[k].avg = Num(12)

-----------------------------------------------------------------------------
(* C13 *)

\* C13: the description of every day summary is the first description of its
\* day's bucket in arrival order, and it is the literal "clear sky" exactly
\* when the bucket has no description entry.
C13_FirstDescriptionElseClearSky ==
    aggDone =>
        \A k \in 1..Len(aggSummaries) :
            LET descs == DescriptionsOn(aggSamples, aggSummaries[k].date)
            IN  /\ descs # <<>> => aggSummaries[k].desc = descs[1]
                /\ aggSummaries[k].desc = "clear sky" <=> descs = <<>>

\* C13, amended: the description of every day summary is the first description
\* of its day's bucket in arrival order when the bucket has one and it is not
\* the empty string, and the literal "clear sky" when the bucket has no
\* description entry or its first entry is the empty string.
C13_FirstNonEmptyDescriptionElseClearSky ==
    aggDone =>
        \A k \in 1..Len(aggSummaries) :
            LET descs == DescriptionsOn(aggSamples, aggSummaries[k].date)
            IN  IF descs = <<>> THEN aggSummaries[k].desc = "clear sky"
                ELSE IF descs[1] = "" THEN aggSummaries[k].desc = "clear sky"
                ELSE aggSummaries[k].desc = descs[1]

\* a day whose samples carry two different descriptions after one sample
\* without any, summarised by the earlier of the two
C13_Witness ==
    /\ aggDone
    /\ \E k \in 1..Len(aggSummaries) :
         LET descs == DescriptionsOn(aggSamples, aggSummaries[k].date)
             on    == SamplesOn(aggSamples, aggSummaries[k].date)
         IN  /\ Len(descs) = 2
             /\ Cardinality(on) = 3
             /\ descs[1] = "snow"
             /\ descs[2] = "light rain"
             /\ aggSummaries[k].desc = "snow"

-----------------------------------------------------------------------------
(* C14 *)

HasPrefix(text, prefix) ==
    Len(text) >= Len(prefix) /\ SubSeq(text, 1, Len(prefix)) = prefix

\* the result carries a forecast text whose header names the given place
ForecastReturnedFor(i, place) ==
    /\ result[i].kind = "returned"
    /\ result[i].content # <<>>
    /\ result[i].content[1].type = "text"
    /\ HasPrefix(result[i].content[1].text, <<ForecastHeader>> \o place \o <<":">>)

ForecastReturned(i) ==
    /\ result[i].kind = "returned"
    /\ result[i].content # <<>>
    /\ result[i].content[1].type = "text"
    /\ IsForecastText(result[i].content[1].text)

\* C14: a successful payload (2xx, parsed, cod "200", list present) without
\* city metadata still yields a forecast text whose header names the original
\* query string; with city metadata a returned forecast names "name, country".
C14_HeaderLocation ==
    \A i \in Invocations :
        (Done(i) /\ PayloadReceived(i) /\ PayloadOf(i).cod = "200"
                 /\ PayloadOf(i).list # <<>>) =>
            IF PayloadOf(i).city = <<>>
            THEN ForecastReturnedFor(i, AskedLocation(i))
            ELSE ForecastReturned(i) =>
                   ForecastReturnedFor(i, PayloadOf(i).city[1].name \o <<", ">>
                                          \o PayloadOf(i).city[1].country)

-----------------------------------------------------------------------------
(* C15 *)

GeocodingFailed(i) ==
    /\ given[i].geo # <<>>
    /\ \/ given[i].geo[1].kind = "failure"
       \/ given[i].geoBody # <<>> /\ given[i].geoBody[1].kind = "invalid"

UnexpectedErrorPrefix == <<"An unexpected error occurred: ">>

\* C15: in the UI build, once the forecast call has succeeded and the
\* summaries are built, a fallback geocoding call that fails on the network or
\* answers an unparsable body leaves the single text "An unexpected error
\* occurred: {detail}" as the result, and no block of the result is the
\* forecast text.
C15_GeocodingFailureDropsForecast ==
    \A i \in Invocations :
        (variant = "ui" /\ Done(i) /\ GeocodingFailed(i)) =>
            /\ result[i].kind = "returned"
            /\ IsSingleText(result[i].content)
            /\ HasPrefix(result[i].content[1].text, UnexpectedErrorPrefix)
            /\ Len(result[i].content[1].text) > Len(UnexpectedErrorPrefix)
            /\ given[i].geo[1].kind = "failure" =>
                 result[i].content[1].text = UnexpectedErrorPrefix \o given[i].geo[1].message
            /\ \A k \in 1..Len(result[i].content) :
                 result[i].content[k].type = "text" =>
                     ~IsForecastText(result[i].content[k].text)

\* a forecast of at least one day was computed, geocoding was called, answered
\* and its body did not parse
C15_Witness ==
    \E i \in Invocations :
        /\ variant = "ui"
        /\ Done(i)
        /\ PayloadReceived(i)
        /\ PayloadOf(i).list # <<>>
        /\ PayloadOf(i).list[1] # <<>>
        /\ given[i].geo # <<>>
        /\ given[i].geo[1].kind = "response"
        /\ given[i].geoBody = <<InvalidBody>>

====
